---- MODULE Spec2Model ----
(***************************************************************************)
(* cloudflare-dns-sync: configuration loading (config.load / validate),    *)
(* the sync loop (run) and the per-tick sync function (newSyncFunc).       *)
(*                                                                         *)
(* Opaque strings (zone id, record id, record name, API token) are TLA+    *)
(* strings; strings the code parses (CLOUDFLARE_RECORD_TTL, the discovery  *)
(* response body) are sequences of one-character strings.                  *)
(***************************************************************************)
EXTENDS Integers, Sequences, FiniteSets, TLC

VARIABLES
  cfgFile,               \* the config file as os.Open + json.Decode find it
  environ,               \* the process environment (the five CLOUDFLARE_* variables)
  cfg,                   \* the config value Run holds (zero value until loaded)
  pc,                    \* position of Run / run
  runErr,                \* the error Run returned (NoErr: nil or not returned yet)
  ctxDone,               \* the cancellation signal (ctx.Done() closed)
  tickerC,               \* number of ticks ticker.C holds
  tickDropped,           \* history: a firing found ticker.C full since the last receive
  recvSinceFire,         \* history: ticks received from ticker.C since the last firing
  consecutiveFailCount,  \* run's consecutiveFailCount
  oldIP,                 \* newSyncFunc's oldIP: the cached last known IP
  ticks,                 \* history: number of sync attempts started
  netCalls,              \* history: number of hc.Do calls made
  cur,                   \* history: the sync attempt in progress or last finished
  prev,                  \* history: the sync attempt before cur
  lastOK,                \* history: content of the latest update call answered 2xx
  failRun,               \* history: failed sync attempts since the latest success
  exitLog,               \* the line run logged as it left ("" while it has not)
  raised,                \* history: the value a sync attempt panicked with
  panicVal,              \* the panic value that left Run towards main
  tmpl,                  \* what newSyncFunc built: token, body prefix/suffix, base requests
  hdrs                   \* the http.Header maps, by the reference a request holds

tickVars == <<tickerC, tickDropped, recvSinceFire>>

exitVars == <<runErr, exitLog, raised, panicVal>>

reqVars == <<tmpl, hdrs>>

vars == <<cfgFile, environ, cfg, pc, runErr, ctxDone, tickVars,
          consecutiveFailCount, oldIP, ticks, netCalls, cur, prev, lastOK,
          failRun, exitLog, raised, panicVal, tmpl, hdrs>>

cfgVars == <<cfgFile, environ>>
loopVars == <<ctxDone, tickVars, consecutiveFailCount, oldIP, ticks, netCalls,
              cur, prev, lastOK, failRun>>

----------------------------------------------------------------------------
(* Bounds *)

\* sync attempts a behaviour may start
MaxTicks == 3

----------------------------------------------------------------------------
(* strconv.Atoi / strconv.Itoa on character sequences *)

DigitChars == <<"0", "1", "2", "3", "4", "5", "6", "7", "8", "9">>

IsDigit(c) == \E i \in 1..Len(DigitChars) : DigitChars[i] = c

DigitVal(c) == (CHOOSE i \in 1..Len(DigitChars) : DigitChars[i] = c) - 1

RECURSIVE ParseDigits(_, _)
ParseDigits(s, acc) ==
  IF s = << >> THEN acc
  ELSE ParseDigits(Tail(s), acc * Len(DigitChars) + DigitVal(Head(s)))

\* strconv.Atoi: optional sign, then at least one decimal digit and nothing else
Atoi(s) ==
  LET signed == s # << >> /\ Head(s) \in {"+", "-"}
      body   == IF signed THEN Tail(s) ELSE s
  IN  IF body = << >> \/ \E i \in 1..Len(body) : ~IsDigit(body[i])
      THEN [err |-> TRUE, v |-> 0]
      ELSE [err |-> FALSE,
            v   |-> IF Head(s) = "-" THEN 0 - ParseDigits(body, 0)
                                     ELSE ParseDigits(body, 0)]

RECURSIVE UItoa(_)
UItoa(n) ==
  IF n < Len(DigitChars) THEN <<DigitChars[n + 1]>>
  ELSE UItoa(n \div Len(DigitChars)) \o <<DigitChars[(n % Len(DigitChars)) + 1]>>

\* strconv.Itoa: the canonical decimal rendering
Itoa(v) == IF v < 0 THEN <<"-">> \o UItoa(0 - v) ELSE UItoa(v)

----------------------------------------------------------------------------
(* config *)

NoErr == << >>

NilTTL == [nil |-> TRUE, v |-> 0]

TTLOf(n) == [nil |-> FALSE, v |-> n]

DefaultTTL == 120

\* config{}: the zero value of the struct
ZeroConfig ==
  [ZoneID |-> "", RecordID |-> "", RecordName |-> "", ApiToken |-> "",
   TTLPtr |-> NilTTL, ttl |-> 0, noCfgFile |-> FALSE]

isEmpty(c) == c = ZeroConfig

\* os.LookupEnv: (value, ok)
Unset == [ok |-> FALSE, v |-> ""]

SetTo(s) == [ok |-> TRUE, v |-> s]

UnsetTTL == [ok |-> FALSE, v |-> << >>]

EnvGiven(e) == e.ok /\ e.v # ""

EnvTTLGiven(e) == e.ok /\ e.v # << >>

\* the merge of one string field: the file's value, else the environment's
MergeStr(fileVal, e) ==
  IF fileVal = "" THEN (IF EnvGiven(e) THEN e.v ELSE fileVal) ELSE fileVal

errLoadFile == "failed to load config file"
errParseTTL == "failed to parse CLOUDFLARE_RECORD_TTL environment variable"
errNoConfig == "no configuration"

\* the strict parse of CLOUDFLARE_RECORD_TTL: Atoi fails, or the integer does
\* not render back to the string
TTLParseFailsMutantNoRoundTrip(s) == Atoi(s).err

TTLParseFails(s) == Atoi(s).err \/ Itoa(Atoi(s).v) # s

\* config.load: [err, c]; c is what *c is left as (untouched on error)
load(file, env) ==
  IF file.kind = "bad" THEN [err |-> <<errLoadFile>>, c |-> ZeroConfig]
  ELSE
    LET noCfgFile    == file.kind = "missing"
        r0           == IF noCfgFile THEN ZeroConfig ELSE file.content
        emptyCfgFile == ~noCfgFile /\ isEmpty(r0)
        parsed       == Atoi(env.TTL.v)
        ttlBad       == EnvTTLGiven(env.TTL) /\ TTLParseFails(env.TTL.v)
        ttl          == IF EnvTTLGiven(env.TTL) THEN parsed.v
                        ELSE IF r0.TTLPtr.nil THEN DefaultTTL
                        ELSE r0.TTLPtr.v
        result       == [r0 EXCEPT !.ZoneID     = MergeStr(r0.ZoneID, env.ZoneID),
                                   !.RecordID   = MergeStr(r0.RecordID, env.RecordID),
                                   !.RecordName = MergeStr(r0.RecordName, env.RecordName),
                                   !.ApiToken   = MergeStr(r0.ApiToken, env.ApiToken),
                                   !.ttl        = ttl]
    IN  IF ttlBad THEN [err |-> <<errParseTTL>>, c |-> ZeroConfig]
        ELSE IF isEmpty(result) /\ (noCfgFile \/ emptyCfgFile)
             THEN [err |-> <<errNoConfig>>, c |-> ZeroConfig]
        ELSE [err |-> NoErr, c |-> [result EXCEPT !.noCfgFile = noCfgFile]]

\* config.validate: first failing check decides the message
ValidateMutantNoToken(c) ==
  IF c.ZoneID = "" THEN <<"CLOUDFLARE_ZONE_ID is required">>
  ELSE IF c.RecordID = "" THEN <<"CLOUDFLARE_RECORD_ID is required">>
  ELSE IF c.RecordName = "" THEN <<"CLOUDFLARE_RECORD_NAME is required">>
  ELSE IF c.ttl < 1 THEN <<"CLOUDFLARE_RECORD_TTL must be greater than 0">>
  ELSE NoErr

validate(c) ==
  IF c.ApiToken = "" THEN <<"CLOUDFLARE_API_TOKEN is required">>
  ELSE IF c.ZoneID = "" THEN <<"CLOUDFLARE_ZONE_ID is required">>
  ELSE IF c.RecordID = "" THEN <<"CLOUDFLARE_RECORD_ID is required">>
  ELSE IF c.RecordName = "" THEN <<"CLOUDFLARE_RECORD_NAME is required">>
  ELSE IF c.ttl < 1 THEN <<"CLOUDFLARE_RECORD_TTL must be greater than 0">>
  ELSE NoErr

\* config.Load: load, then validate what was loaded
Load(file, env) ==
  LET l == load(file, env)
  IN  IF l.err # NoErr THEN l
      ELSE [err |-> validate(l.c), c |-> l.c]

\* newConfig: the zero config on error, the loaded one otherwise
newConfig(file, env) ==
  LET l == Load(file, env)
  IN  IF l.err # NoErr THEN [err |-> l.err, c |-> ZeroConfig] ELSE l

----------------------------------------------------------------------------
(* the discovery response body: strings.TrimSpace and net.ParseIP *)

SpaceChars == {" ", "\n", "\t", "\r"}

RECURSIVE TrimLeft(_)
TrimLeft(s) ==
  IF s # << >> /\ Head(s) \in SpaceChars THEN TrimLeft(Tail(s)) ELSE s

RECURSIVE TrimRight(_)
TrimRight(s) ==
  IF s # << >> /\ s[Len(s)] \in SpaceChars
  THEN TrimRight(SubSeq(s, 1, Len(s) - 1)) ELSE s

TrimSpace(s) == TrimRight(TrimLeft(s))

\* the dotted-quad scan of net.ParseIP: pos fields closed so far, val and
\* digits of the field being read; TRUE iff s is a valid IPv4 literal
RECURSIVE ScanIPv4(_, _, _, _, _)
ScanIPv4(s, i, pos, val, digits) ==
  IF i > Len(s) THEN pos = 3 /\ digits > 0
  ELSE IF IsDigit(s[i])
       THEN LET v == val * Len(DigitChars) + DigitVal(s[i])
            IN  /\ ~(digits = 1 /\ val = 0)
                /\ v <= 255
                /\ ScanIPv4(s, i + 1, pos, v, digits + 1)
  ELSE IF s[i] = "."
       THEN /\ digits > 0
            /\ i < Len(s)
            /\ pos < 3
            /\ ScanIPv4(s, i + 1, pos + 1, 0, 0)
  ELSE FALSE

\* net.ParseIP(s) != nil, for bodies without ':' (no IPv6 literal is fed)
ParseIPMutantAcceptAll(s) == s # << >>

ParseIP(s) == ScanIPv4(s, 1, 0, 0, 0)

\* json.Encoder.Encode of a string without characters to escape, newline trimmed
JSONString(s) == <<"\"">> \o s \o <<"\"">>

----------------------------------------------------------------------------
(* inputs *)

FileStrs == {"", "f"}

FileTTLs == {NilTTL, TTLOf(0), TTLOf(7)}

EnvStrs == {Unset, SetTo(""), SetTo("e")}

EnvTTLs ==
  {UnsetTTL, SetTo(<< >>), SetTo(<<"0">>), SetTo(<<"5">>), SetTo(<<"-", "3">>),
   SetTo(<<"a", "b", "c">>), SetTo(<<"+", "5">>), SetTo(<<"0", "0", "7">>)}

FileOf(z, r, n, a, t) ==
  [kind |-> "ok",
   content |-> [ZeroConfig EXCEPT !.ZoneID = z, !.RecordID = r, !.RecordName = n,
                                  !.ApiToken = a, !.TTLPtr = t]]

MissingFile == [kind |-> "missing", content |-> ZeroConfig]

\* os.Open fails otherwise than not-exist, or the JSON does not decode
BadFile == [kind |-> "bad", content |-> ZeroConfig]

EnvOf(z, r, n, a, t) ==
  [ZoneID |-> z, RecordID |-> r, RecordName |-> n, ApiToken |-> a, TTL |-> t]

\* every file and environment over the value sets above
AllFiles ==
  {MissingFile, BadFile}
  \cup {FileOf(z, r, n, a, t) : z \in FileStrs, r \in FileStrs, n \in FileStrs,
                                a \in FileStrs, t \in FileTTLs}

AllEnvs ==
  {EnvOf(z, r, n, a, t) : z \in EnvStrs, r \in EnvStrs, n \in EnvStrs,
                          a \in EnvStrs, t \in EnvTTLs}

\* the files and environments the whole program is run with: no file, an
\* unreadable file, {} or a complete file; an environment complete or with
\* one variable missing, with or without a zero TTL
RunFiles ==
  {MissingFile, BadFile, FileOf("", "", "", "", NilTTL),
   FileOf("f", "f", "f", "f", NilTTL)}

RunEnvs ==
  {e \in AllEnvs :
     /\ e.TTL \in {UnsetTTL, SetTo(<<"0">>)}
     /\ \A k \in {"ZoneID", "RecordID", "RecordName", "ApiToken"} :
          e[k] \in {Unset, SetTo("e")}
     /\ Cardinality({k \in {"ZoneID", "RecordID", "RecordName", "ApiToken"} :
                       e[k] = Unset}) <= 1}

\* responses of the discovery endpoint
Body1    == <<"1", ".", "1", ".", "1", ".", "1", "\n">>
Body1Sp  == <<" ", "1", ".", "1", ".", "1", ".", "1">>
Body2    == <<"2", ".", "2", ".", "2", ".", "2">>
Body999  == <<"9", "9", "9", ".", "9", "9", "9", ".", "9", "9", "9", ".", "9", "9", "9">>
BodyNone == << >>

Bodies == {Body1, Body1Sp, Body2, Body999, BodyNone}

Statuses == {199, 200, 299, 300, 500}

NoResp == [doErr |-> FALSE, status |-> 0, readErr |-> FALSE, body |-> BodyNone]

\* hc.Do fails; a status outside 2xx; a 2xx whose body cannot be read or is b
DiscoverResponses ==
  {[NoResp EXCEPT !.doErr = TRUE]}
  \cup {[NoResp EXCEPT !.status = st] : st \in {st \in Statuses : st < 200 \/ st >= 300}}
  \cup {[NoResp EXCEPT !.status = st, !.readErr = TRUE] :
          st \in {st \in Statuses : st >= 200 /\ st < 300}}
  \cup {[NoResp EXCEPT !.status = st, !.body = b] :
          st \in {st \in Statuses : st >= 200 /\ st < 300}, b \in Bodies}

UpdateResponses ==
  {[NoResp EXCEPT !.doErr = TRUE]}
  \cup {[NoResp EXCEPT !.status = st] : st \in Statuses}

----------------------------------------------------------------------------
(* newSyncFunc: the two calls of one sync attempt *)

NoIP == << >>

msgDiscover == "failed to determine IP address"
msgUpdate   == "failed to verify Cloudflare DNS record was updated"

errDoDiscover == "failed to get response from checkip.amazonaws.com"
errStatusDiscover == "response status code from checkip.amazonaws.com is not in 2xx range"
errReadBody == "read of response body failed"
errInvalidIP == "checkip.amazonaws.com failed to return a valid IP address in response body"
errDoUpdate == "failed to get response from cloudflare api"
errStatusUpdate == "unexpected response status code from cloudflare"

Not2xxMutantAccept3xx(status) == status < 200 \/ status >= 400

Not2xx(status) == status < 200 \/ status >= 300

\* the discovery closure: [err, ip, jsonIP]
discover(resp) ==
  IF resp.doErr
  THEN [err |-> <<errDoDiscover>>, ip |-> NoIP, jsonIP |-> << >>]
  ELSE IF Not2xx(resp.status)
  THEN [err |-> <<errStatusDiscover>>, ip |-> NoIP, jsonIP |-> << >>]
  ELSE IF resp.readErr
  THEN [err |-> <<errReadBody>>, ip |-> NoIP, jsonIP |-> << >>]
  ELSE LET ip == TrimSpace(resp.body)
       IN  IF ~ParseIP(ip)
           THEN [err |-> <<errInvalidIP>>, ip |-> ip, jsonIP |-> << >>]
           ELSE [err |-> NoErr, ip |-> ip, jsonIP |-> JSONString(ip)]

\* the change-detection gate
SameIPMutantNever(ip, old) == FALSE

SameIP(ip, old) == ip = old

\* the update closure: its error
setRecord(resp) ==
  IF resp.doErr THEN <<errDoUpdate>>
  ELSE IF Not2xx(resp.status) THEN <<errStatusUpdate>>
  ELSE NoErr

\* the wrap of a phase's error: fmt.Errorf("%s: %w", msg, err)
Wrap(msg, err) == <<msg>> \o err

\* oldIP after the update closure returned err
CommitMutantAlways(err, ip, old) == ip

Commit(err, ip, old) == IF err = NoErr THEN ip ELSE old

\* run's bookkeeping of a sync attempt's result
CountFailMutantNoReset(err, n) == IF err # NoErr THEN n + 1 ELSE n

CountFail(err, n) == IF err # NoErr THEN n + 1 ELSE 0

----------------------------------------------------------------------------
(* requests: the base requests newSyncFunc builds and their per-attempt clones *)

HeaderNames == {"User-Agent", "Content-Type", "Authorization"}

\* an http.Header without entries
NoHeader == [k \in HeaderNames |-> << >>]

\* Header.Set
SetHeader(h, k, v) == [h EXCEPT ![k] = v]

\* http.NoBody
NoBody == << >>

HeaderRefs == {"readIPBase", "setRecordBase", "readIPReq", "setRecordReq"}

NoReq == [method |-> "", host |-> "", hdr |-> "", header |-> NoHeader, body |-> NoBody]

userAgent == "github.com---josephcopenhaver--cloudflare-dns-sync/1.0"

\* the decorator run passes to newSyncFunc
reqDeco(h) == SetHeader(h, "User-Agent", <<userAgent>>)

\* the header map a clone of a request holds: Request.Clone copies the map
CloneRefMutantShared(baseRef, freshRef) == baseRef

CloneRef(baseRef, freshRef) == freshRef

NoTmpl ==
  [apiToken |-> "", reqBodyStrPrefix |-> << >>, reqBodyStrSuffix |-> << >>,
   readIPBaseReq |-> NoReq, setRecordBaseReq |-> NoReq]

\* newSyncFunc: what the closure captures
newSyncFunc(c) ==
  [apiToken |-> c.ApiToken,
   reqBodyStrPrefix |->
     <<"{\"type\":\"A\",\"name\":">> \o JSONString(<<c.RecordName>>) \o <<",\"content\":">>,
   reqBodyStrSuffix |-> <<",\"ttl\":">> \o Itoa(c.ttl) \o <<",\"proxied\":false}">>,
   readIPBaseReq |->
     [NoReq EXCEPT !.method = "GET", !.host = "checkip.amazonaws.com",
                   !.hdr = "readIPBase"],
   setRecordBaseReq |->
     [NoReq EXCEPT !.method = "PUT",
                   !.host = "api.cloudflare.com",
                   !.hdr = "setRecordBase"]]

\* the header maps after the discovery request was cloned and decorated
discoverHdrs(h, t) ==
  LET ref == CloneRef(t.readIPBaseReq.hdr, "readIPReq")
      h1  == [h EXCEPT !["readIPReq"] = h[t.readIPBaseReq.hdr]]
  IN  [h1 EXCEPT ![ref] = reqDeco(h1[ref])]

\* the discovery request as sent
discoverReq(h, t) ==
  LET ref == CloneRef(t.readIPBaseReq.hdr, "readIPReq")
  IN  [t.readIPBaseReq EXCEPT !.hdr = ref, !.header = discoverHdrs(h, t)[ref]]

\* the header maps after the update request was cloned and its headers set
updateHdrs(h, t) ==
  LET ref == CloneRef(t.setRecordBaseReq.hdr, "setRecordReq")
      h1  == [h EXCEPT !["setRecordReq"] = h[t.setRecordBaseReq.hdr]]
  IN  [h1 EXCEPT ![ref] =
         reqDeco(SetHeader(SetHeader(h1[ref], "Content-Type", <<"application/json">>),
                           "Authorization", <<"Bearer ", t.apiToken>>))]

\* the update request as sent
updateReq(h, t, jsonIP) ==
  LET ref == CloneRef(t.setRecordBaseReq.hdr, "setRecordReq")
  IN  [t.setRecordBaseReq EXCEPT
         !.hdr = ref, !.header = updateHdrs(h, t)[ref],
         !.body = t.reqBodyStrPrefix \o jsonIP \o t.reqBodyStrSuffix]

\* the body the code hands to io.Copy(io.Discard, ...) to drain
DrainedBody == "req.Body"

\* the response body is read to its end by the drain
Drained == DrainedBody = "resp.Body"

----------------------------------------------------------------------------
(* leaving run *)

NoPanic == ""

PanicValues == {"fault-a", "fault-b"}

\* run's deferred function: [log, panic] for the recovered value r
deferredExitMutantAbsorb(r) ==
  IF r # NoPanic THEN [log |-> "service exited unexpectedly", panic |-> NoPanic]
  ELSE [log |-> "service stopped", panic |-> NoPanic]

deferredExit(r) ==
  IF r # NoPanic THEN [log |-> "service exited unexpectedly", panic |-> r]
  ELSE [log |-> "service stopped", panic |-> NoPanic]

\* history of one sync attempt: the cache at its start, the discovery request
\* and response, whether the response body was read to its end, the IP read from
\* it, the update calls made, the content, request and response of the update
\* call, whether that response body was read to its end, the result and the
\* error returned
NoTick ==
  [startIP |-> NoIP, req |-> NoReq, resp |-> NoResp, read |-> FALSE, ip |-> NoIP,
   upd |-> 0, content |-> << >>, ureq |-> NoReq, uresp |-> NoResp,
   uread |-> FALSE, res |-> "none", err |-> NoErr]

\* the ready test of the cases `<-doneChan`
DoneReadyMutantAlways(done) == TRUE

DoneReady(done) == done

\* where run goes after a sync attempt: the counter of failures has no say
PostTargetMutantRetryOnFail(done, fails) ==
  IF DoneReady(done) THEN "returned" ELSE IF fails > 0 THEN "sync" ELSE "wait"

PostTarget(done, fails) == IF DoneReady(done) THEN "returned" ELSE "wait"

\* the capacity of the channel time.NewTicker makes
TickerCap == 1

\* the ticker's send on ticker.C: dropped when the channel is full
TickerSendMutantQueue(n) == IF n < TickerCap + 1 THEN n + 1 ELSE n

TickerSend(n) == IF n < TickerCap THEN n + 1 ELSE n

\* the ready test of the case `<-ticker.C`
TickReadyMutantAlways(n) == TRUE

TickReady(n) == n > 0

\* ctx.Err() != nil before the loop
StartCanceledMutantNever(done) == FALSE

StartCanceled(done) == done

----------------------------------------------------------------------------
(* Run *)

TypeOK ==
  /\ pc \in {"logger", "config", "start", "sync", "discover", "update", "post",
             "wait", "returned", "panicked"}
  /\ ctxDone \in BOOLEAN
  /\ tickerC \in 0..TickerCap
  /\ tickDropped \in BOOLEAN
  /\ recvSinceFire \in 0..MaxTicks
  /\ consecutiveFailCount \in 0..MaxTicks
  /\ failRun \in 0..MaxTicks
  /\ ticks \in 0..MaxTicks
  /\ netCalls \in 0..(2 * MaxTicks)
  /\ raised \in PanicValues \cup {NoPanic}
  /\ panicVal \in PanicValues \cup {NoPanic}
  /\ DOMAIN hdrs = HeaderRefs

InitWith(files, envs) ==
  /\ cfgFile \in files
  /\ environ \in envs
  /\ cfg = ZeroConfig
  /\ pc = "logger"
  /\ runErr = NoErr
  /\ ctxDone = FALSE
  /\ tickerC = 0
  /\ tickDropped = FALSE
  /\ recvSinceFire = 0
  /\ consecutiveFailCount = 0
  /\ oldIP = NoIP
  /\ ticks = 0
  /\ netCalls = 0
  /\ cur = NoTick
  /\ prev = NoTick
  /\ lastOK = << >>
  /\ failRun = 0
  /\ exitLog = ""
  /\ raised = NoPanic
  /\ panicVal = NoPanic
  /\ tmpl = NoTmpl
  /\ hdrs = [r \in HeaderRefs |-> NoHeader]

Init == InitWith(RunFiles, RunEnvs)

InitCfg == InitWith(AllFiles, AllEnvs)

\* Run: newLogger, rootContext
NewLogger ==
  /\ pc = "logger"
  /\ \E ok \in BOOLEAN :
       IF ok THEN pc' = "config" /\ runErr' = NoErr
       ELSE pc' = "returned" /\ runErr' = <<"failed to create logger">>
  /\ UNCHANGED <<cfgVars, cfg, loopVars, exitLog, raised, panicVal, reqVars>>

\* Run: newConfig, and the return on its error
LoadConfig ==
  /\ pc = "config"
  /\ LET r == newConfig(cfgFile, environ)
     IN  IF r.err # NoErr
         THEN /\ pc' = "returned"
              /\ runErr' = <<"failed to load runtime config">> \o r.err
              /\ cfg' = cfg
         ELSE /\ pc' = "start"
              /\ runErr' = NoErr
              /\ cfg' = r.c
  /\ UNCHANGED <<cfgVars, loopVars, exitLog, raised, panicVal, reqVars>>

\* run: client, ticker and syncFunc are built, then ctx.Err() is looked at
StartCheck ==
  /\ pc = "start"
  /\ tmpl' = newSyncFunc(cfg)
  /\ pc' = IF StartCanceled(ctxDone) THEN "returned" ELSE "sync"
  /\ exitLog' = IF StartCanceled(ctxDone) THEN "service start canceled" ELSE exitLog
  /\ UNCHANGED <<cfgVars, cfg, runErr, raised, panicVal, loopVars, hdrs>>

\* syncFunc is entered and the discovery request is cloned, decorated and sent
SyncBegin ==
  /\ pc = "sync"
  /\ pc' = "discover"
  /\ ticks' = ticks + 1
  /\ netCalls' = netCalls + 1
  /\ prev' = [cur EXCEPT !.req = NoReq, !.resp = NoResp, !.ureq = NoReq,
                         !.err = NoErr]
  /\ hdrs' = discoverHdrs(hdrs, tmpl)
  /\ cur' = [NoTick EXCEPT !.startIP = oldIP, !.res = "running",
                           !.req = discoverReq(hdrs, tmpl)]
  /\ UNCHANGED <<cfgVars, cfg, exitVars, ctxDone, tickVars, consecutiveFailCount,
                 oldIP, lastOK, failRun, tmpl>>

\* the discovery call returns: failure, same IP, or the update request is sent
DiscoverDone ==
  /\ pc = "discover"
  /\ \E resp \in DiscoverResponses :
       LET d    == discover(resp)
           read == /\ ~resp.doErr
                   /\ IF Not2xx(resp.status) THEN Drained ELSE ~resp.readErr
       IN  IF d.err # NoErr
           THEN /\ pc' = "post"
                /\ cur' = [cur EXCEPT !.resp = resp, !.read = read, !.res = "fail",
                                      !.err = Wrap(msgDiscover, d.err)]
                /\ consecutiveFailCount' =
                     CountFail(Wrap(msgDiscover, d.err), consecutiveFailCount)
                /\ failRun' = failRun + 1
                /\ netCalls' = netCalls
                /\ hdrs' = hdrs
           ELSE IF SameIP(d.ip, oldIP)
           THEN /\ pc' = "post"
                /\ cur' = [cur EXCEPT !.resp = resp, !.read = read, !.res = "ok",
                                      !.ip = d.ip]
                /\ consecutiveFailCount' = CountFail(NoErr, consecutiveFailCount)
                /\ failRun' = 0
                /\ netCalls' = netCalls
                /\ hdrs' = hdrs
           ELSE /\ pc' = "update"
                /\ cur' = [cur EXCEPT !.resp = resp, !.read = read, !.ip = d.ip,
                                      !.content = d.jsonIP, !.upd = 1,
                                      !.ureq = updateReq(hdrs, tmpl, d.jsonIP)]
                /\ consecutiveFailCount' = consecutiveFailCount
                /\ failRun' = failRun
                /\ netCalls' = netCalls + 1
                /\ hdrs' = updateHdrs(hdrs, tmpl)
  /\ UNCHANGED <<cfgVars, cfg, exitVars, ctxDone, tickVars, oldIP, ticks, prev,
                 lastOK, tmpl>>

\* the update call returns: the cache is committed on success
UpdateDone ==
  /\ pc = "update"
  /\ \E resp \in UpdateResponses :
       LET e   == setRecord(resp)
           err == IF e # NoErr THEN Wrap(msgUpdate, e) ELSE NoErr
       IN  /\ pc' = "post"
           /\ oldIP' = Commit(e, cur.ip, oldIP)
           /\ lastOK' = IF e = NoErr THEN cur.content ELSE lastOK
           /\ cur' = [cur EXCEPT !.res = IF e = NoErr THEN "ok" ELSE "fail",
                                 !.err = err, !.uresp = resp,
                                 !.uread = (~resp.doErr /\ Drained)]
           /\ consecutiveFailCount' = CountFail(err, consecutiveFailCount)
           /\ failRun' = IF e = NoErr THEN 0 ELSE failRun + 1
  /\ UNCHANGED <<cfgVars, cfg, exitVars, ctxDone, tickVars, ticks, netCalls, prev,
                 reqVars>>

\* the non-blocking select after a sync attempt
PostCheck ==
  /\ pc = "post"
  /\ pc' = PostTarget(ctxDone, consecutiveFailCount)
  /\ exitLog' = IF pc' = "returned" THEN deferredExit(NoPanic).log ELSE exitLog
  /\ UNCHANGED <<cfgVars, cfg, runErr, raised, panicVal, loopVars, reqVars>>

\* the blocking select: case <-doneChan
WaitDone ==
  /\ pc = "wait"
  /\ DoneReady(ctxDone)
  /\ pc' = "returned"
  /\ exitLog' = deferredExit(NoPanic).log
  /\ UNCHANGED <<cfgVars, cfg, runErr, raised, panicVal, loopVars, reqVars>>

\* the blocking select: case tickTime = <-ticker.C
WaitTick ==
  /\ pc = "wait"
  /\ TickReady(tickerC)
  /\ ticks < MaxTicks
  /\ tickerC' = tickerC - 1
  /\ tickDropped' = FALSE
  /\ recvSinceFire' = recvSinceFire + 1
  /\ pc' = "sync"
  /\ UNCHANGED <<cfgVars, cfg, exitVars, ctxDone, consecutiveFailCount, oldIP,
                 ticks, netCalls, cur, prev, lastOK, failRun, reqVars>>

\* the runtime's ticker fires: a non-blocking send of the time on ticker.C
TickerFire ==
  /\ pc \in {"start", "sync", "discover", "update", "post", "wait"}
  /\ tickerC' = TickerSend(tickerC)
  /\ tickDropped' = (tickDropped \/ tickerC >= TickerCap)
  /\ recvSinceFire' = 0
  /\ UNCHANGED <<cfgVars, cfg, pc, exitVars, ctxDone, consecutiveFailCount, oldIP,
                 ticks, netCalls, cur, prev, lastOK, failRun, reqVars>>

\* the termination signal cancels the root context
Cancel ==
  /\ pc \in {"config", "start", "sync", "discover", "update", "post", "wait"}
  /\ ~ctxDone
  /\ ctxDone' = TRUE
  /\ UNCHANGED <<cfgVars, cfg, pc, exitVars, tickVars, consecutiveFailCount, oldIP,
                 ticks, netCalls, cur, prev, lastOK, failRun, reqVars>>

\* a call of the sync attempt panics: run's deferred function recovers the
\* value, logs and panics with it again; Run and main do not recover
SyncPanic ==
  /\ pc \in {"discover", "update"}
  /\ \E r \in PanicValues :
       /\ raised' = r
       /\ exitLog' = deferredExit(r).log
       /\ panicVal' = deferredExit(r).panic
       /\ pc' = IF deferredExit(r).panic # NoPanic THEN "panicked" ELSE "returned"
  /\ UNCHANGED <<cfgVars, cfg, runErr, loopVars, reqVars>>

Step ==
  \/ NewLogger
  \/ LoadConfig
  \/ StartCheck
  \/ SyncBegin
  \/ DiscoverDone
  \/ UpdateDone
  \/ PostCheck
  \/ WaitDone
  \/ WaitTick

Next ==
  \/ NewLogger
  \/ LoadConfig
  \/ StartCheck
  \/ SyncBegin
  \/ DiscoverDone
  \/ UpdateDone
  \/ PostCheck
  \/ WaitDone
  \/ WaitTick
  \/ TickerFire
  \/ Cancel

Spec == Init /\ [][Next]_vars

\* the goroutine of Run is scheduled, every HTTP call returns
FairSpec == Spec /\ WF_vars(Step)

NextFault ==
  \/ NewLogger
  \/ LoadConfig
  \/ StartCheck
  \/ SyncBegin
  \/ DiscoverDone
  \/ UpdateDone
  \/ PostCheck
  \/ WaitDone
  \/ WaitTick
  \/ TickerFire
  \/ Cancel
  \/ SyncPanic

\* the program with run-time faults inside a sync attempt
SpecFault == Init /\ [][NextFault]_vars

NextCfg ==
  \/ NewLogger
  \/ LoadConfig
  \/ StartCheck
  \/ SyncBegin
  \/ Cancel

\* Run up to the first discovery request, over every file and environment
SpecCfg == InitCfg /\ [][NextCfg]_vars

----------------------------------------------------------------------------
(* Properties *)

TickDone(t) == t.res \in {"ok", "fail"}

\* the update call of sync attempt t was answered with a 2xx status
UpdateOK(t) ==
  t.upd = 1 /\ ~t.uresp.doErr /\ t.uresp.status >= 200 /\ t.uresp.status < 300

\* the update call of sync attempt t failed: transport failure or non-2xx status
UpdateFailed(t) ==
  /\ t.upd = 1
  /\ TickDone(t)
  /\ (t.uresp.doErr \/ t.uresp.status < 200 \/ t.uresp.status >= 300)

InLoop == pc \in {"sync", "discover", "update", "post", "wait"}

\* the cache against the update calls answered 2xx so far
C1_CacheState ==
  IF lastOK = << >> THEN oldIP = NoIP
  ELSE oldIP # NoIP /\ lastOK = JSONString(oldIP)

\* a step that changes the cache
C1_CacheChange ==
  oldIP' # oldIP =>
    /\ cur.res = "running" /\ cur'.res = "ok"
    /\ UpdateOK(cur')
    /\ oldIP' = cur.ip
    /\ cur'.ip = cur.ip
    /\ cur'.content = JSONString(oldIP')

\* a step that ends a sync attempt in failure
C1_FailKeeps ==
  (cur.res = "running" /\ cur'.res = "fail") => oldIP' = oldIP

\* C1: the cache is empty while no update call has succeeded and otherwise is
\* the content of the latest update call answered 2xx; it changes only in the
\* step that ends a sync attempt whose update call was answered 2xx, to the IP
\* that attempt discovered; a step that ends a sync attempt in failure leaves it.
C1_CacheCommittedOnlyOnSuccess ==
  [](C1_CacheState) /\ [][C1_CacheChange /\ C1_FailKeeps]_vars

C1_Witness ==
  /\ pc = "post"
  /\ prev.res = "fail"
  /\ UpdateOK(cur)
  /\ cur.startIP # NoIP
  /\ oldIP = cur.ip
  /\ oldIP # cur.startIP

\* C2: after a sync attempt whose update call failed the cache is what it was
\* at the start of that attempt, the next attempt starts from the same cache,
\* and if it discovers the same IP it issues the update call with that IP again.
C2_FailedUpdateRetried ==
  /\ UpdateFailed(cur) => oldIP = cur.startIP
  /\ (UpdateFailed(prev) /\ cur.res # "none") =>
       /\ cur.startIP = prev.startIP
       /\ (cur.ip = prev.ip => cur.upd = 1 /\ cur.content = JSONString(prev.ip))

C2_Witness ==
  /\ UpdateFailed(prev)
  /\ UpdateFailed(cur)
  /\ cur.ip = prev.ip
  /\ consecutiveFailCount >= 2

\* C3: a sync attempt that discovers the cached IP returns success, issues no
\* update call and leaves the cache as it was.
C3_SameIPIsNoOp ==
  (cur.ip # NoIP /\ cur.ip = cur.startIP) =>
    /\ cur.res = "ok"
    /\ cur.err = NoErr
    /\ cur.upd = 0
    /\ oldIP = cur.startIP

C3_Witness ==
  /\ pc = "post"
  /\ cur.ip # NoIP
  /\ cur.ip = cur.startIP
  /\ cur.resp.body = Body1Sp
  /\ prev.upd = 1

\* two consecutive sync attempts discovered different valid literals and the
\* second has returned
C4_Case ==
  /\ prev.ip # NoIP
  /\ cur.ip # NoIP
  /\ prev.ip # cur.ip
  /\ TickDone(cur)

C4_OneUpdate ==
  /\ cur.upd = 1
  /\ cur.content = JSONString(cur.ip)
  /\ (oldIP = cur.ip <=> UpdateOK(cur))
  /\ (~UpdateOK(cur) => oldIP = cur.startIP)

\* C4 as claimed: L1 then L2 gives exactly one update call with content L2,
\* whatever the cache was, and the cache is L2 iff that call succeeded.
C4_Original == C4_Case => C4_OneUpdate

\* C4: L1 then L2 gives exactly one update call with content L2, and the cache
\* is L2 afterwards iff that call succeeded (else what it was), unless the
\* cache before the second attempt is already L2: then no update call is made
\* and the cache stays L2.
C4_Amended ==
  C4_Case =>
    IF cur.startIP = cur.ip
    THEN cur.upd = 0 /\ oldIP = cur.ip /\ cur.res = "ok"
    ELSE C4_OneUpdate

C4_Witness ==
  /\ C4_Case
  /\ prev.res = "ok"
  /\ cur.startIP = prev.ip
  /\ UpdateFailed(cur)

\* C5 as claimed: the same literal on two consecutive attempts gives no update
\* call in the second.
C5_Original ==
  (cur.ip # NoIP /\ prev.ip = cur.ip) => cur.upd = 0

\* C5: the same literal on two consecutive attempts gives no update call in
\* the second when the first returned success; when the first failed in its
\* update call the second issues the update call again.
C5_Amended ==
  (cur.ip # NoIP /\ prev.ip = cur.ip) =>
    /\ prev.res = "ok" => cur.upd = 0 /\ cur.res = "ok"
    /\ prev.res = "fail" => cur.upd = 1

C5_Witness ==
  /\ cur.ip # NoIP
  /\ prev.ip = cur.ip
  /\ prev.res = "ok"
  /\ prev.upd = 1
  /\ TickDone(cur)

\* the discovery responses the claim counts as failures of the discovery step
C6_DiscoveryFails(r) ==
  \/ r.doErr
  \/ r.status < 200 \/ r.status >= 300
  \/ r.readErr
  \/ r.body \in {Body999, BodyNone}

\* C6: a sync attempt whose discovery step fails returns an error with the
\* discovery prefix, makes no update call and leaves the cache; one that fails
\* in its update call returns an error with the update prefix; a failed attempt
\* carries exactly the prefix of the phase that failed.
C6_PhaseTagged ==
  /\ (TickDone(cur) /\ C6_DiscoveryFails(cur.resp)) =>
       /\ cur.res = "fail"
       /\ Head(cur.err) = msgDiscover
       /\ cur.upd = 0
       /\ oldIP = cur.startIP
  /\ UpdateFailed(cur) =>
       /\ cur.res = "fail"
       /\ Head(cur.err) = msgUpdate
  /\ cur.res = "fail" =>
       /\ Len(cur.err) = 2
       /\ (Head(cur.err) = msgDiscover <=> C6_DiscoveryFails(cur.resp))
       /\ (Head(cur.err) = msgUpdate <=> UpdateFailed(cur))

C6_Witness ==
  /\ cur.res = "fail"
  /\ cur.resp.body = Body999
  /\ cur.startIP # NoIP
  /\ prev.res = "fail"
  /\ prev.upd = 1

\* a step of run from the check before the loop, or after Run returned
C7_Step ==
  /\ (pc = "start" /\ ctxDone /\ pc' # pc) =>
       (pc' = "returned" /\ runErr' = NoErr /\ netCalls' = 0 /\ ticks' = 0)
  /\ pc = "returned" => (pc' = "returned" /\ netCalls' = netCalls)

\* C7: when the cancellation signal is set as run looks at it before the
\* loop, run returns nil with no network call made, and none is made after.
C7_CanceledStartMakesNoCall == [][C7_Step]_vars

C7_Witness ==
  /\ pc = "returned"
  /\ runErr = NoErr
  /\ cfg # ZeroConfig
  /\ ctxDone
  /\ netCalls = 0

\* C8: once the cancellation signal is set inside the loop, run eventually
\* returns nil; and run does not return from the loop while the signal is unset.
C8_CancelEndsLoop ==
  /\ (ctxDone /\ InLoop) ~> (pc = "returned" /\ runErr = NoErr)
  /\ []((pc = "returned" /\ ticks > 0) => ctxDone)

C8_Witness ==
  /\ pc = "returned"
  /\ runErr = NoErr
  /\ ticks >= 2
  /\ ctxDone
  /\ cur.res = "fail"

\* a source supplies field k: the file has it non-empty, or the environment
\* variable is set and non-empty
C9_Supplied(k) ==
  \/ cfgFile.kind = "ok" /\ cfgFile.content[k] # ""
  \/ EnvGiven(environ[k])

C9_Message(k) ==
  CASE k = "ApiToken"   -> "CLOUDFLARE_API_TOKEN is required"
    [] k = "ZoneID"     -> "CLOUDFLARE_ZONE_ID is required"
    [] k = "RecordID"   -> "CLOUDFLARE_RECORD_ID is required"
    [] k = "RecordName" -> "CLOUDFLARE_RECORD_NAME is required"

C9_Fields == {"ApiToken", "ZoneID", "RecordID", "RecordName"}

\* C9: run is entered, and a sync attempt or network call made, only with all
\* four strings non-empty and TTL >= 1; when a field is supplied by no source
\* Run returns the configuration error without a sync attempt, and the message
\* for a missing field names a field that is missing.
C9_NoSyncWithoutValidConfig ==
  /\ (pc \in {"start"} \/ InLoop \/ ticks > 0 \/ netCalls > 0) =>
       /\ \A k \in C9_Fields : cfg[k] # "" /\ C9_Supplied(k)
       /\ cfg.ttl >= 1
  /\ (pc \notin {"logger", "config"} /\ runErr # <<"failed to create logger">>
      /\ \E k \in C9_Fields : ~C9_Supplied(k)) =>
       /\ pc = "returned"
       /\ Len(runErr) = 2
       /\ Head(runErr) = "failed to load runtime config"
       /\ ticks = 0 /\ netCalls = 0
  /\ (runErr # NoErr /\ Head(runErr) = "failed to load runtime config") =>
       (pc = "returned" /\ cfg = ZeroConfig /\ ticks = 0 /\ netCalls = 0)
  /\ \A k \in C9_Fields :
       (Len(runErr) = 2 /\ runErr[2] = C9_Message(k)) =>
         (pc = "returned" /\ ~C9_Supplied(k) /\ ticks = 0 /\ netCalls = 0)
  /\ (Len(runErr) = 2 /\ runErr[2] = "CLOUDFLARE_RECORD_TTL must be greater than 0") =>
       (pc = "returned" /\ ticks = 0 /\ netCalls = 0
        /\ \A k \in C9_Fields : C9_Supplied(k))

C9_Witness ==
  /\ pc = "returned"
  /\ runErr = <<"failed to load runtime config", C9_Message("RecordName")>>
  /\ cfgFile.kind = "ok"

\* C10 as claimed: for each field an environment variable that is set and
\* non-empty gives the merged value, the file's value otherwise (TTL 120 when
\* neither gives one).
C10_EnvOverridesFile ==
  pc = "start" =>
    /\ \A k \in C9_Fields :
         cfg[k] = IF EnvGiven(environ[k]) THEN environ[k].v
                  ELSE cfgFile.content[k]
    /\ cfg.ttl = IF EnvTTLGiven(environ.TTL) THEN Atoi(environ.TTL.v).v
                 ELSE IF cfgFile.content.TTLPtr.nil THEN DefaultTTL
                 ELSE cfgFile.content.TTLPtr.v


\* no environment variable supplies a field
C11_NoEnv ==
  /\ \A k \in C9_Fields : ~EnvGiven(environ[k])
  /\ ~EnvTTLGiven(environ.TTL)

\* no file, or a file that decodes to the empty configuration ({})
C11_NoFileOrEmpty ==
  \/ cfgFile.kind = "missing"
  \/ cfgFile.kind = "ok" /\ cfgFile.content = ZeroConfig

\* C11 as claimed: configuration loading fails with "no configuration" exactly
\* when there is no file or an empty one and no environment variable supplies
\* a field; so for file {} and an empty environment.
C11_NoConfigError ==
  (pc \notin {"logger", "config"} /\ runErr # <<"failed to create logger">>) =>
    (runErr = <<"failed to load runtime config", errNoConfig>>
       <=> (C11_NoFileOrEmpty /\ C11_NoEnv))

\* a string of digits without a leading zero, of value >= 1
C12_CanonicalPositive(s) ==
  /\ s # << >>
  /\ \A i \in 1..Len(s) : IsDigit(s[i])
  /\ Head(s) # "0"

\* the four required strings are supplied and the TTL variable is given
C12_Case ==
  /\ pc \notin {"logger", "config"}
  /\ runErr # <<"failed to create logger">>
  /\ cfgFile.kind # "bad"
  /\ \A k \in C9_Fields : C9_Supplied(k)
  /\ EnvTTLGiven(environ.TTL)

\* C12: with the four strings supplied, Load accepts CLOUDFLARE_RECORD_TTL = s
\* iff s is the canonical decimal of an integer >= 1; "0" fails with the TTL
\* validation error; a non-numeric or non-canonical s fails with the parse error.
C12_StrictTTL ==
  C12_Case =>
    LET s == environ.TTL.v
    IN  /\ runErr = NoErr <=> C12_CanonicalPositive(s)
        /\ runErr = NoErr => cfg.ttl >= 1 /\ Itoa(cfg.ttl) = s
        /\ s = <<"0">> =>
             runErr = <<"failed to load runtime config",
                        "CLOUDFLARE_RECORD_TTL must be greater than 0">>
        /\ s \in {<<"a", "b", "c">>, <<"+", "5">>, <<"0", "0", "7">>} =>
             runErr = <<"failed to load runtime config", errParseTTL>>

C12_Witness ==
  /\ C12_Case
  /\ environ.TTL.v = <<"0", "0", "7">>
  /\ cfgFile.kind = "ok"
  /\ cfgFile.content.TTLPtr = TTLOf(7)
  /\ runErr = <<"failed to load runtime config", errParseTTL>>


\* a step that starts or enters a sync attempt
C13_Step ==
  /\ (pc = "start" /\ ~ctxDone /\ pc' # pc) =>
       (pc' = "sync" /\ ticks = 0 /\ tickerC' = tickerC /\ recvSinceFire' = 0)
  /\ (pc' = "sync" /\ pc # "sync") =>
       \/ pc = "start" /\ ticks = 0
       \/ /\ pc = "wait" /\ ticks >= 1
          /\ tickerC >= 1 /\ tickerC' = tickerC - 1
  /\ ticks' = ticks + 1 => (pc = "sync" /\ pc' = "discover")
  /\ (pc = "sync" /\ pc' # pc) => ticks' = ticks + 1

\* C13: without cancellation at the start the first sync attempt begins with no
\* receive from ticker.C before it; every later attempt begins only after a
\* tick was received from ticker.C.
C13_FirstSyncImmediate == [][C13_Step]_vars

C13_Witness ==
  /\ pc = "discover"
  /\ ticks = 2
  /\ recvSinceFire = 1
  /\ tickerC = 0

\* C14 as claimed: the blocking select never takes the tick when the
\* cancellation signal is set, also when ticker.C is ready at the same moment.
C14_Step == (pc = "wait" /\ pc' = "sync") => ~ctxDone

C14_NoSyncAfterCancel == [][C14_Step]_vars

\* a step of run around a sync attempt
C15_Step ==
  /\ ticks' = ticks + 1 => cur.res # "running"
  /\ pc = "post" => pc' \in {"post", "wait", "returned"}
  /\ (pc = "wait" /\ pc' # pc) =>
       \/ pc' = "returned" /\ ctxDone
       \/ pc' = "sync" /\ tickerC >= 1 /\ tickerC' = tickerC - 1
  /\ (pc \in {"discover", "update"} /\ pc' # pc) =>
       pc' \in {"update", "post"} /\ ticks' = ticks

\* C15: after any sync attempt, failed or not and whatever the failure counter,
\* the next one starts only after the previous has returned and a tick was
\* received from ticker.C; at most one attempt is in progress; with no tick in
\* ticker.C and no cancellation run stays in the wait.
C15_NoEarlyRetry ==
  /\ [][C15_Step]_vars
  /\ []((cur.res = "running") <=> (pc \in {"discover", "update"}))

C15_Witness ==
  /\ pc = "wait"
  /\ consecutiveFailCount >= 2
  /\ tickerC = 0
  /\ ~ctxDone

\* C16: firings that find ticker.C full are dropped: after any firing at most
\* one tick is received until the next firing, so the firings during one slow
\* sync attempt give at most one later attempt.
C16_NoTickBacklog ==
  /\ recvSinceFire <= 1
  /\ tickerC <= 1
  /\ tickDropped => tickerC = 1

C16_Witness ==
  /\ pc = "update"
  /\ ticks = 2
  /\ tickDropped
  /\ tickerC = 1
  /\ recvSinceFire = 0


\* the counter over one step: plus one as an attempt fails, zero as it succeeds,
\* untouched by every other step
C17_Step ==
  IF cur.res = "running" /\ cur'.res = "fail"
  THEN consecutiveFailCount' = consecutiveFailCount + 1
  ELSE IF cur.res = "running" /\ cur'.res = "ok"
  THEN consecutiveFailCount' = 0
  ELSE consecutiveFailCount' = consecutiveFailCount

\* C17: after every completed sync attempt the consecutive-failure counter is
\* the number of failed attempts since the latest successful one (0 after a
\* success, the number of attempts while none has succeeded); it grows by
\* exactly one on a failure and is reset to zero on a success
C17_CounterCountsFailRun ==
  /\ [](TickDone(cur) =>
          /\ consecutiveFailCount = failRun
          /\ (cur.res = "ok" => consecutiveFailCount = 0)
          /\ (lastOK = << >> => consecutiveFailCount = ticks))
  /\ [][C17_Step]_vars

\* two failures in a row were counted, and the counter was reset by the success
\* that followed them
C17_Witness ==
  /\ pc = "post"
  /\ ticks = 3
  /\ cur.res = "ok"
  /\ prev.res = "fail"
  /\ consecutiveFailCount = 0


\* a response was received whose body the sync attempt does not parse
C18_Unparsed(resp) == ~resp.doErr /\ Not2xx(resp.status)

\* C18: every response whose body the sync attempt does not parse is read to
\* its end before it is closed: the discovery response on a non-2xx status and
\* the update response on 2xx and non-2xx statuses
C18_UnparsedBodiesDrained ==
  /\ (cur.resp # NoResp /\ C18_Unparsed(cur.resp) => cur.read)
  /\ (cur.upd = 1 /\ cur.uresp # NoResp /\ ~cur.uresp.doErr => cur.uread)


\* after a panic left run nothing of the program runs any more
C19_Step == raised # NoPanic => UNCHANGED <<pc, ticks, netCalls, cur, exitVars>>

\* C19: a panic raised during a sync attempt is not absorbed by the loop: it is
\* logged as an unexpected exit and raised again with the same value up to the
\* process boundary, no sync attempt starts afterwards, and the "service
\* stopped" exit is not taken
C19_PanicReraised ==
  /\ [](raised # NoPanic =>
          /\ pc = "panicked"
          /\ panicVal = raised
          /\ exitLog = "service exited unexpectedly")
  /\ [](exitLog = "service stopped" => raised = NoPanic /\ pc = "returned")
  /\ [][C19_Step]_vars

\* the update call of the second sync attempt panicked
C19_Witness ==
  /\ raised = "fault-b"
  /\ pc = "panicked"
  /\ ticks = 2
  /\ cur.upd = 1
  /\ cur.res = "running"


\* the two base requests are as newSyncFunc built them
C20_TemplatesIntact ==
  /\ tmpl = newSyncFunc(cfg)
  /\ tmpl.readIPBaseReq.header = NoHeader /\ tmpl.readIPBaseReq.body = NoBody
  /\ tmpl.setRecordBaseReq.header = NoHeader /\ tmpl.setRecordBaseReq.body = NoBody
  /\ hdrs[tmpl.readIPBaseReq.hdr] = NoHeader
  /\ hdrs[tmpl.setRecordBaseReq.hdr] = NoHeader

\* the discovery request carries the User-Agent and nothing else
C20_DiscoveryClean ==
  cur.req # NoReq =>
    /\ cur.req.method = "GET" /\ cur.req.host = "checkip.amazonaws.com"
    /\ cur.req.header["Authorization"] = << >>
    /\ cur.req.header["Content-Type"] = << >>
    /\ cur.req.header["User-Agent"] = <<userAgent>>
    /\ cur.req.body = NoBody

\* the update request carries this attempt's IP between the prefix and suffix
\* of the start
C20_UpdateBody ==
  cur.ureq # NoReq =>
    /\ cur.ureq.method = "PUT" /\ cur.ureq.host = "api.cloudflare.com"
    /\ cur.ureq.header["Authorization"] = <<"Bearer ", cfg.ApiToken>>
    /\ cur.ureq.header["Content-Type"] = <<"application/json">>
    /\ cur.ureq.header["User-Agent"] = <<userAgent>>
    /\ cur.ureq.body =
         <<"{\"type\":\"A\",\"name\":", "\"", cfg.RecordName, "\"", ",\"content\":", "\"">>
         \o cur.ip
         \o <<"\"", ",\"ttl\":">> \o Itoa(cfg.ttl) \o <<",\"proxied\":false}">>
    /\ cur.ip = TrimSpace(cur.resp.body)

\* C20: the two prebuilt base requests are never modified by a sync attempt:
\* what is set on a clone (User-Agent, Content-Type, Authorization, body) does
\* not show on the base request or on a later clone, so the discovery request
\* never carries the API token and every update body is prefix, JSON of the IP
\* discovered in this attempt, suffix, with the prefix and suffix of the start
C20_TemplatesNeverModified ==
  InLoop \/ ticks > 0 => C20_TemplatesIntact /\ C20_DiscoveryClean /\ C20_UpdateBody

\* the third attempt sends an update for a second address after two attempts
\* that sent updates with the token
C20_Witness ==
  /\ pc = "update"
  /\ ticks = 3
  /\ prev.upd = 1
  /\ oldIP # NoIP
  /\ cur.ip # oldIP
  /\ cur.ureq # NoReq
  /\ cur.req.header["Authorization"] = << >>

====
